---- MODULE Spec2Model ----
(***************************************************************************)
(* Model of generate_tree.py (zuoliangyu/NUEDC_TOPIC): the TreeGenerator   *)
(* class and main().                                                       *)
(*                                                                         *)
(* Text is modelled as a sequence of pieces.  A piece is either a single   *)
(* character (file names are sequences of one-character strings) or one of *)
(* the literal strings the script writes (a connector, a marker, a fixed   *)
(* heading).  The text a sequence stands for is the concatenation of its   *)
(* pieces; no name character occurs inside a literal's alphabet in a way   *)
(* that would let two different piece sequences spell the same text.       *)
(* The module is ASCII only, so non-ASCII characters are written as        *)
(* stand-ins: "U9898" is the character U+9898, "|-- " is the mid-list      *)
(* connector, "+-- " the terminal connector, "|   " the vertical bar       *)
(* indentation, "~~~" the code fence of three backquotes.                  *)
(***************************************************************************)
EXTENDS Integers, Sequences, FiniteSets, TLC

VARIABLES
    root_dir,     \* self.root_dir: the absolute path, a sequence of names
    fs,           \* the directory tree below root_dir: relative path -> "dir" | "file"
    unreadable,   \* relative paths of directories whose listing raises PermissionError
    listing,      \* directory -> its child names in the order iterdir() yields them
                  \* during the current run (empty once the run has ended)
    readme,       \* content of README.md (pieces); meaningful when the file exists
    sidebar_md,   \* content of _sidebar.md (pieces); meaningful when the file exists
    io_fault,     \* the I/O fault the environment injects into the current run
    pc,           \* position of main()
    run,          \* number of the current run of the script
    tree,         \* locals of the last generate_readme_tree call
    side,         \* locals of the last generate_docsify_sidebar call
    ret,          \* return values of update_readme / create_sidebar in this run
    content,      \* update_readme's local: the README content it read in this run
    stats,        \* result of generate_stats in this run
    prev,         \* outputs of the previous run
    fs0,          \* the directory tree as it was when the current run started
    filename,     \* argument of extract_problem_info (name specification)
    info          \* its result

vars == <<root_dir, fs, unreadable, listing, readme, sidebar_md, io_fault, pc, run,
          tree, side, ret, content, stats, prev, fs0, filename, info>>

-----------------------------------------------------------------------------
(* Bounds *)

MaxTreeEntries == 3
MaxSidebarEntries == 4
MaxUnreadable == 1
MaxReadmeLen == 4
MaxNameLen == 5
MaxRuns == 2

-----------------------------------------------------------------------------
(* Characters *)

UpperCase == <<"A","B","C","D","E","F","G","H","I","J","K","L","M",
               "N","O","P","Q","R","S","T","U","V","W","X","Y","Z">>
LowerCase == <<"a","b","c","d","e","f","g","h","i","j","k","l","m",
               "n","o","p","q","r","s","t","u","v","w","x","y","z">>
Digit == {"0","1","2","3","4","5","6","7","8","9"}

\* The characters of the model in code point order.  The stand-ins are
\* U5408, U5E74, U660E, U6D4B, U771F, U7EFC, U8BC4, U8BF4, U9898.
CodeOrder ==
    <<"-", ".", "/", "0","1","2","3","4","5","6","7","8","9">>
    \o UpperCase \o <<"_">> \o LowerCase
    \o <<"U5408","U5E74","U660E","U6D4B","U771F","U7EFC","U8BC4","U8BF4","U9898">>

Range(s) == {s[i] : i \in DOMAIN s}
Chars == Range(CodeOrder)

\* ord(c), up to an order isomorphism: Python compares strings code point by
\* code point.
OrdTable == [c \in Chars |-> CHOOSE i \in DOMAIN CodeOrder : CodeOrder[i] = c]
ord(c) == OrdTable[c]

LowerTable ==
    [c \in Chars |->
        IF c \in Range(UpperCase)
        THEN LowerCase[CHOOSE i \in DOMAIN UpperCase : UpperCase[i] = c]
        ELSE c]
UpperTable ==
    [c \in Chars |->
        IF c \in Range(LowerCase)
        THEN UpperCase[CHOOSE i \in DOMAIN LowerCase : LowerCase[i] = c]
        ELSE c]

\* str.lower() / str.upper()
lower(s) == [i \in DOMAIN s |-> LowerTable[s[i]]]
upper(s) == [i \in DOMAIN s |-> UpperTable[s[i]]]

-----------------------------------------------------------------------------
(* Strings *)

Min(S) == CHOOSE x \in S : \A y \in S : x <= y
Max(S) == CHOOSE x \in S : \A y \in S : x >= y

\* s.startswith(p)
startswith(s, p) == Len(s) >= Len(p) /\ SubSeq(s, 1, Len(p)) = p

\* p in s (substring)
contains(s, p) ==
    \E i \in 1..(Len(s) - Len(p) + 1) : SubSeq(s, i, i + Len(p) - 1) = p

\* s.replace(a, b) for single characters a, b
replace(s, a, b) == [i \in DOMAIN s |-> IF s[i] = a THEN b ELSE s[i]]

\* sep.join(parts), sep one piece
RECURSIVE join(_, _)
join(parts, sep) ==
    IF Len(parts) = 0 THEN <<>>
    ELSE IF Len(parts) = 1 THEN parts[1]
    ELSE parts[1] \o <<sep>> \o join(Tail(parts), sep)

\* str(n) for n >= 0
DigitChars == <<"0","1","2","3","4","5","6","7","8","9">>
RECURSIVE str_int(_)
str_int(n) ==
    IF n < 10 THEN <<DigitChars[n + 1]>>
    ELSE Append(str_int(n \div 10), DigitChars[(n % 10) + 1])

\* the order of Python tuples / strings encoded as integer sequences
LexLess(a, b) ==
    LET m == IF Len(a) < Len(b) THEN Len(a) ELSE Len(b)
        D == {i \in 1..m : a[i] # b[i]}
    IN  IF D = {} THEN Len(a) < Len(b) ELSE a[Min(D)] < b[Min(D)]

ords(s) == [i \in DOMAIN s |-> ord(s[i])]

\* list.sort / sorted: a stable sort.  keys[i] is the key of the i-th item;
\* the result is the sequence of item indices in sorted order.  With reverse
\* the order is descending and equal keys still keep their original order.
RECURSIVE sort_indices(_, _, _)
sort_indices(keys, n, reverse) ==
    IF n = 0 THEN <<>>
    ELSE LET done == sort_indices(keys, n - 1, reverse)
             Stays(e) == IF reverse THEN ~LexLess(keys[e], keys[n])
                                    ELSE ~LexLess(keys[n], keys[e])
             before == SelectSeq(done, Stays)
         IN  before \o <<n>> \o SubSeq(done, Len(before) + 1, Len(done))

sorted(items, keys, reverse) ==
    LET idx == sort_indices(keys, Len(items), reverse)
    IN  [i \in DOMAIN items |-> items[idx[i]]]

-----------------------------------------------------------------------------
(* Names and literals of the script *)

n_git == <<".","g","i","t">>
n_github == <<".","g","i","t","h","u","b">>
n_node_modules == <<"n","o","d","e","_","m","o","d","u","l","e","s">>
n_pycache == <<"_","_","p","y","c","a","c","h","e","_","_">>
n_tree_bak == <<"t","r","e","e",".","b","a","k">>
n_nojekyll == <<".","n","o","j","e","k","y","l","l">>
n_generate_tree_py == <<"g","e","n","e","r","a","t","e","_","t","r","e","e",".","p","y">>
n_index_html == <<"i","n","d","e","x",".","h","t","m","l">>
n_sidebar_md == <<"_","s","i","d","e","b","a","r",".","m","d">>
n_gitignore == <<".","g","i","t","i","g","n","o","r","e">>
n_README_md == <<"R","E","A","D","M","E",".","m","d">>
n_zhenti == <<"U771F","U9898">>
n_zhongce == <<"U7EFC","U5408","U6D4B","U8BC4">>

ignore_patterns ==
    <<n_git, n_github, n_node_modules, n_pycache, n_tree_bak, n_nojekyll,
      n_generate_tree_py, n_index_html, n_sidebar_md, n_gitignore>>

start_marker == "<!-- readme-tree start -->"
end_marker == "<!-- readme-tree end -->"
NL == "\n"
MID == "|-- "
LAST == "+-- "
BAR == "|   "
GAP == "    "
FENCE == "~~~"

-----------------------------------------------------------------------------
(* The trees of the model: the entries a root directory may hold *)

Root == <<>>

n_b == <<"b">>
n_A == <<"A">>
n_e == <<"e">>
n_a_md == <<"a",".","m","d">>
n_z_txt == <<"z",".","t","x","t">>
n_Z_txt == <<"Z",".","t","x","t">>
n_x_git == <<"x",".","g","i","t">>
n_2023 == <<"2","0","2","3">>
n_2024 == <<"2","0","2","4">>
n_2022x == <<"2","0","2","2","x">>
n_A_x_pdf == <<"A","_","x",".","p","d","f">>
n_a_x_pdf == <<"a","_","x",".","p","d","f">>
n_0_i_md == <<"0","_","i",".","m","d">>
n_B_y_z_pdf == <<"B","U9898","-","y","_","z",".","p","d","f">>
n_C_q_pdf == <<"C","_","q",".","p","d","f">>
n_2023zc_pdf == <<"2","0","2","3","z","c",".","p","d","f">>
n_zc_pdf == <<"z","c",".","p","d","f">>

CleanRoot == << <<"s","r","v">>, <<"d","o","c","s">> >>
\* a checkout directory named like a GitHub Pages repository: its path holds
\* the patterns ".git" and ".github"
PagesRoot == << <<"h","o","m","e">>, <<"u",".","g","i","t","h","u","b",".","i","o">> >>

ReadmeOnly == (<<n_README_md>> :> "file")
SidebarOnly == (<<n_sidebar_md>> :> "file")
NoFiles == <<>>
ZhentiTree ==
       (<<n_README_md>> :> "file") @@ (<<n_zhenti>> :> "dir")
    @@ (<<n_zhenti, n_2022x>> :> "dir") @@ (<<n_zhenti, n_2022x, n_C_q_pdf>> :> "file")

TreeCands ==
       (<<n_b>> :> "dir") @@ (<<n_tree_bak>> :> "file")
    @@ (<<n_b, n_A>> :> "dir") @@ (<<n_b, n_b>> :> "dir")
    @@ (<<n_b, n_a_md>> :> "file")
    @@ (<<n_b, n_z_txt>> :> "file") @@ (<<n_b, n_Z_txt>> :> "file")
    @@ (<<n_b, n_tree_bak>> :> "file") @@ (<<n_b, n_x_git>> :> "file")
    @@ (<<n_b, n_b, n_e>> :> "file")

SidebarCands ==
       (<<n_2023>> :> "dir") @@ (<<n_2024>> :> "dir")
    @@ (<<n_2023, n_A_x_pdf>> :> "file") @@ (<<n_2023, n_a_x_pdf>> :> "file")
    @@ (<<n_2023, n_0_i_md>> :> "file") @@ (<<n_2024, n_B_y_z_pdf>> :> "file")
    @@ (<<n_2024, n_index_html>> :> "file")
    @@ (<<n_zhongce>> :> "dir") @@ (<<n_zhongce, n_2023zc_pdf>> :> "file")
    @@ (<<n_zhongce, n_zc_pdf>> :> "file")

\* every path of the model, relative to the root
RelPaths ==
    {Root} \cup DOMAIN TreeCands \cup DOMAIN SidebarCands \cup DOMAIN ZhentiTree
    \cup {<<n_README_md>>, <<n_sidebar_md>>, <<n_zhongce>>}
RootDirs == {CleanRoot, PagesRoot}

-----------------------------------------------------------------------------
(* The file system as the script sees it *)

\* the absolute path of a path relative to root_dir
Abs(rel) == root_dir \o rel

\* str(path): a POSIX absolute path
str_path(path) == <<"/">> \o join(path, "/")

exists(rel) == rel \in DOMAIN fs
is_dir(rel) == rel \in DOMAIN fs /\ fs[rel] = "dir"
is_file(rel) == rel \in DOMAIN fs /\ fs[rel] = "file"

\* list(dir.iterdir()) of a readable directory: the children in the order the
\* file system yields them
iterdir(dir) == [i \in DOMAIN listing[dir] |-> Append(dir, listing[dir][i])]

path_name(path) == IF Len(path) = 0 THEN <<>> ELSE path[Len(path)]

\* TreeGenerator.should_ignore, on an absolute path
should_ignore_path(path) ==
    LET name == path_name(path)
    IN  \/ (startswith(name, <<".">>) /\ name # n_nojekyll)
        \/ name \in Range(ignore_patterns)
        \/ \E k \in DOMAIN ignore_patterns : contains(str_path(path), ignore_patterns[k])

\* should_ignore over the paths of the model, computed once
IgnoreTable ==
    [p \in {r \o q : r \in RootDirs, q \in RelPaths} |-> should_ignore_path(p)] @@ <<>>
should_ignore(path) == IgnoreTable[path]

-----------------------------------------------------------------------------
(* TreeGenerator.extract_problem_info *)

\* os.path.splitext(filename)[0]: the name up to its last dot, unless only
\* dots precede that dot
splitext_stem(name) ==
    LET dots == {i \in DOMAIN name : name[i] = "."}
    IN  IF dots = {} THEN name
        ELSE LET d == Max(dots)
             IN  IF \E i \in 1..(d - 1) : name[i] # "." THEN SubSeq(name, 1, d - 1)
                 ELSE name

\* re.match(r'^([A-Z])(?:U9898)?[_\-](.+)$', s): the index of the separator, or
\* 0 when s does not match.  (No character of the model is a line break, so
\* '.' matches every character and '$' only the end.)
letter_match(s) ==
    IF Len(s) >= 1 /\ s[1] \in Range(UpperCase)
    THEN LET k == IF Len(s) >= 2 /\ s[2] = "U9898" THEN 3 ELSE 2
         IN  IF Len(s) >= k + 1 /\ s[k] \in {"_", "-"} THEN k ELSE 0
    ELSE 0

s_INFO == <<"I","N","F","O">>
s_FILE == <<"F","I","L","E">>

extract_problem_info_nostrip(name) ==
    LET name_without_ext == name
        k == letter_match(name_without_ext)
    IN  IF k > 0
        THEN [label |-> <<name_without_ext[1]>>,
              title |-> replace(replace(SubSeq(name_without_ext, k + 1,
                                               Len(name_without_ext)), "_", " "), "-", " ")]
        ELSE IF startswith(name_without_ext, <<"0","_">>)
        THEN [label |-> s_INFO,
              title |-> replace(SubSeq(name_without_ext, 3, Len(name_without_ext)), "_", " ")]
        ELSE [label |-> s_FILE, title |-> replace(name_without_ext, "_", " ")]

extract_problem_info(name) ==
    LET name_without_ext == splitext_stem(name)
        k == letter_match(name_without_ext)
    IN  IF k > 0
        THEN [label |-> <<name_without_ext[1]>>,
              title |-> replace(replace(SubSeq(name_without_ext, k + 1,
                                               Len(name_without_ext)), "_", " "), "-", " ")]
        ELSE IF startswith(name_without_ext, <<"0","_">>)
        THEN [label |-> s_INFO,
              title |-> replace(SubSeq(name_without_ext, 3, Len(name_without_ext)), "_", " ")]
        ELSE [label |-> s_FILE, title |-> replace(name_without_ext, "_", " ")]

-----------------------------------------------------------------------------
(* TreeGenerator.generate_readme_tree *)

NoLines == [lines |-> <<>>, dirs |-> 0, files |-> 0]

\* the key with the name as it is spelled, upper case before lower case
tree_key_case_sensitive(path) ==
    <<IF is_file(path) THEN 1 ELSE 0>> \o ords(path_name(path))

\* sorted(dir_path.iterdir(), key=lambda x: (x.is_file(), x.name.lower()))
tree_key(path) == <<IF is_file(path) THEN 1 ELSE 0>> \o ords(lower(path_name(path)))

tree_items(dir) ==
    LET l == iterdir(dir)
    IN  sorted(l, [i \in DOMAIN l |-> tree_key(l[i])], FALSE)

\* is_last = i == len(items) - 1, with i counted from 1 here
is_last_item(items, i) == i = Len(items)

\* add_directory(dir_path, prefix) and its for loop from item i on: the lines
\* appended and the increments of total_dirs and total_files
RECURSIVE add_directory(_, _)
RECURSIVE add_items(_, _, _, _)

add_items(dir, prefix, items, i) ==
    IF i > Len(items) THEN NoLines
    ELSE LET item == items[i]
             rest == add_items(dir, prefix, items, i + 1)
         IN  IF should_ignore(Abs(item)) THEN rest
             ELSE LET is_last == is_last_item(items, i)
                      current_prefix == IF is_last THEN LAST ELSE MID
                      next_prefix == IF is_last THEN GAP ELSE BAR
                      line == prefix \o <<current_prefix>> \o path_name(item)
                  IN  IF is_dir(item)
                      THEN LET sub == add_directory(item, Append(prefix, next_prefix))
                           IN  [lines |-> <<line>> \o sub.lines \o rest.lines,
                                dirs |-> 1 + sub.dirs + rest.dirs,
                                files |-> sub.files + rest.files]
                      ELSE [lines |-> <<line>> \o rest.lines,
                            dirs |-> rest.dirs,
                            files |-> 1 + rest.files]

add_directory(dir, prefix) ==
    IF should_ignore(Abs(dir)) THEN NoLines
    ELSE IF dir \in unreadable THEN NoLines          \* except PermissionError: pass
    ELSE add_items(dir, prefix, tree_items(dir), 1)

generate_readme_tree ==
    LET body == add_directory(Root, <<>>)
        lines == <<<<FENCE>>, <<".">>>> \o body.lines
                 \o << <<>>,
                       str_int(body.dirs) \o <<" directories, ">>
                           \o str_int(body.files) \o <<" files">>,
                       <<FENCE>> >>
    IN  [lines |-> lines, total_dirs |-> body.dirs, total_files |-> body.files,
         text |-> join(lines, NL)]

-----------------------------------------------------------------------------
(* TreeGenerator.generate_docsify_sidebar *)

RECURSIVE concat(_)
concat(ss) == IF Len(ss) = 0 THEN <<>> ELSE ss[1] \o concat(Tail(ss))

HOME_LINE == <<"* [**U9996U9875**](/)">>
USAGE_LINE == <<"* [**U4F7FU7528U8BF4U660E**](#U4F7FU7528U8BF4U660E)">>
YEAR_FALLBACK == <<"  * U65E0U6CD5U8BBFU95EEU6B64U5E74U4EFDU7684U6587U4EF6">>
ZHONGCE_FALLBACK == <<"  * U65E0U6CD5U8BBFU95EEU7EFCU5408U6D4BU8BC4U6587U4EF6">>
ZHONGCE_HEADING == <<"* **">> \o n_zhongce \o <<"**">>

year_heading(year) == <<"* **">> \o year \o <<"U5E74", "**">>

\* re.match(r'^\d{4}$', name)
is_year_name(name) == Len(name) = 4 /\ \A i \in 1..4 : name[i] \in Digit
\* re.match(r'^\d{4}', name)
has_year_prefix(name) == Len(name) >= 4 /\ \A i \in 1..4 : name[i] \in Digit

\* re.search(r'(\d{4})', name): the first run of four digits, <<>> if none
year_match(name) ==
    LET at == {i \in 1..(Len(name) - 3) : \A j \in i..(i + 3) : name[j] \in Digit}
    IN  IF at = {} THEN <<>> ELSE SubSeq(name, Min(at), Min(at) + 3)

\* the year directories collected from root_dir (or from its fallback folder),
\* in iteration order
direct_year_dirs ==
    LET Keep(item) == is_dir(item) /\ ~should_ignore(Abs(item))
                      /\ is_year_name(path_name(item))
    IN  SelectSeq(iterdir(Root), Keep)

zhenti_year_dirs ==
    LET Keep(item) == is_dir(item) /\ ~should_ignore(Abs(item))
                      /\ has_year_prefix(path_name(item))
    IN  SelectSeq(iterdir(<<n_zhenti>>), Keep)

\* year_dirs.sort(key=lambda x: x.name, reverse=True)
sort_year_dirs(ds) == sorted(ds, [i \in DOMAIN ds |-> ords(path_name(ds[i]))], TRUE)

\* files.sort(key=lambda x: (not x.name.startswith('0_'), x.name.upper()))
year_file_key(f) ==
    <<IF startswith(path_name(f), <<"0","_">>) THEN 0 ELSE 1>> \o ords(upper(path_name(f)))

year_files(year_dir) ==
    LET Keep(f) == is_file(f) /\ ~should_ignore(Abs(f))
        files == SelectSeq(iterdir(year_dir), Keep)
    IN  sorted(files, [i \in DOMAIN files |-> year_file_key(files[i])], FALSE)

year_file_line(year, f) ==
    LET name == path_name(f)
        pi == extract_problem_info(name)
        link == <<"#">> \o year \o <<"/">> \o name
    IN  IF startswith(name, <<"0","_">>)
        THEN <<"  * [">> \o pi.title \o <<"](">> \o link \o <<")">>
        ELSE <<"  * **">> \o pi.label \o <<"U9898", "** - [">> \o pi.title
             \o <<"](">> \o link \o <<")">>

\* a year directory that cannot be listed contributing its heading only
year_block_no_fallback(year_dir) ==
    LET year == path_name(year_dir)
    IN  IF year_dir \in unreadable
        THEN <<year_heading(year)>>
        ELSE LET files == year_files(year_dir)
                 shown == SelectSeq(files, LAMBDA f : ~startswith(path_name(f), <<".">>))
             IN  <<year_heading(year)>>
                 \o [i \in DOMAIN shown |-> year_file_line(year, shown[i])]

\* the lines one year directory contributes: its heading, then its entries, or
\* the fallback line when listing it raises PermissionError
year_block(year_dir) ==
    LET year == path_name(year_dir)
    IN  IF year_dir \in unreadable
        THEN <<year_heading(year), YEAR_FALLBACK>>
        ELSE LET files == year_files(year_dir)
                 shown == SelectSeq(files, LAMBDA f : ~startswith(path_name(f), <<".">>))
             IN  <<year_heading(year)>>
                 \o [i \in DOMAIN shown |-> year_file_line(year, shown[i])]

zhongce_file_line(f) ==
    LET name == path_name(f)
        ym == year_match(name)
        title == IF ym # <<>> THEN ym \o <<"U5E74">> \o n_zhongce
                 ELSE splitext_stem(name)
        link == <<"#">> \o n_zhongce \o <<"/">> \o name
    IN  <<"  * [">> \o title \o <<"](">> \o link \o <<")">>

zhongce_block ==
    LET zhongce_dir == <<n_zhongce>>
    IN  IF ~(exists(zhongce_dir) /\ is_dir(zhongce_dir)) THEN <<>>
        ELSE << <<>>, ZHONGCE_HEADING >> \o
             (IF zhongce_dir \in unreadable THEN <<ZHONGCE_FALLBACK>>
              ELSE LET Keep(f) == is_file(f) /\ ~should_ignore(Abs(f))
                       l == SelectSeq(iterdir(zhongce_dir), Keep)
                       files == sorted(l, [i \in DOMAIN l |-> ords(path_name(l[i]))], FALSE)
                   IN  [i \in DOMAIN files |-> zhongce_file_line(files[i])])

SidebarRaised == [raised |-> TRUE, lines |-> <<>>, year_dirs |-> <<>>, text |-> <<>>]

generate_docsify_sidebar ==
    IF Root \in unreadable THEN SidebarRaised      \* line 123: not inside any try
    ELSE LET direct == direct_year_dirs
             zhenti_dir == <<n_zhenti>>
             fallback == direct = <<>> /\ exists(zhenti_dir) /\ is_dir(zhenti_dir)
         IN  IF fallback /\ zhenti_dir \in unreadable
             THEN SidebarRaised                    \* line 133: not inside any try
             ELSE LET year_dirs == sort_year_dirs(IF fallback THEN zhenti_year_dirs
                                                  ELSE direct)
                      lines == <<HOME_LINE, USAGE_LINE, <<>> >>
                               \o concat([i \in DOMAIN year_dirs |-> year_block(year_dirs[i])])
                               \o zhongce_block
                  IN  [raised |-> FALSE, lines |-> lines, year_dirs |-> year_dirs,
                       text |-> Append(join(lines, NL), NL)]

-----------------------------------------------------------------------------
(* TreeGenerator.update_readme: the new content of README.md *)

\* content.find(marker): the 0-based index of the first occurrence, -1 if none.
\* A marker is one piece, so its length in pieces is 1.
find(txt, marker) ==
    LET at == {i \in DOMAIN txt : txt[i] = marker}
    IN  IF at = {} THEN -1 ELSE Min(at) - 1

\* content[:n] and content[n:]
slice_to(txt, n) == SubSeq(txt, 1, IF n < Len(txt) THEN n ELSE Len(txt))
slice_from(txt, n) == SubSeq(txt, n + 1, Len(txt))

\* the replacement taken as soon as either marker is found
new_readme_content_either_marker(txt, new_tree) ==
    LET start_idx == find(txt, start_marker)
        end_idx == find(txt, end_marker)
    IN  IF start_idx # -1 \/ end_idx # -1
        THEN LET before == slice_to(txt, start_idx + 1)
                 after == slice_from(txt, Max({end_idx, 0}))
             IN  before \o <<NL>> \o new_tree \o <<NL>> \o after
        ELSE txt \o <<NL, NL, start_marker, NL>> \o new_tree
             \o <<NL, end_marker, NL>>

new_readme_content(txt, new_tree) ==
    LET start_idx == find(txt, start_marker)
        end_idx == find(txt, end_marker)
    IN  IF start_idx # -1 /\ end_idx # -1
        THEN LET before == slice_to(txt, start_idx + 1)
                 after == slice_from(txt, end_idx)
             IN  before \o <<NL>> \o new_tree \o <<NL>> \o after
        ELSE txt \o <<NL, NL, start_marker, NL>> \o new_tree
             \o <<NL, end_marker, NL>>

-----------------------------------------------------------------------------
(* TreeGenerator.generate_stats: the two counters, as os.walk visits the tree *)

children(dir) == {p \in DOMAIN fs : Len(p) = Len(dir) + 1 /\ SubSeq(p, 1, Len(dir)) = dir}

RECURSIVE walk(_)
walk(dir) ==
    IF dir \in unreadable THEN [dirs |-> 0, files |-> 0]     \* os.walk: onerror=None
    ELSE LET dirs == {d \in children(dir) : is_dir(d) /\ ~should_ignore(Abs(d))}
             files == {f \in children(dir) : ~is_dir(f) /\ ~should_ignore(Abs(f))}
             RECURSIVE sum(_)
             sum(S) == IF S = {} THEN [dirs |-> 0, files |-> 0]
                       ELSE LET d == CHOOSE x \in S : TRUE
                                a == walk(d)
                                b == sum(S \ {d})
                            IN  [dirs |-> a.dirs + b.dirs, files |-> a.files + b.files]
             below == sum(dirs)
         IN  [dirs |-> Cardinality(dirs) + below.dirs,
              files |-> Cardinality(files) + below.files]

generate_stats == LET w == walk(Root) IN [total_files |-> w.files, total_dirs |-> w.dirs]

-----------------------------------------------------------------------------
(* main(): one run of the script, step by step *)

NoTree == [made |-> FALSE, lines |-> <<>>, total_dirs |-> 0, total_files |-> 0,
           text |-> <<>>]
NoSide == [made |-> FALSE, raised |-> FALSE, lines |-> <<>>, year_dirs |-> <<>>,
           text |-> <<>>]
NoRet == [update_readme |-> "none", create_sidebar |-> "none"]
NoStats == [made |-> FALSE, total_files |-> 0, total_dirs |-> 0]
NoPrev == [fs0 |-> <<>>, readme |-> <<>>, sidebar_md |-> <<>>, tree |-> NoTree,
           side |-> NoSide, ret |-> NoRet, pc |-> "none"]

\* the listing order of a run that has ended
NoListing == <<>>

readme_path == <<n_README_md>>
sidebar_path == <<n_sidebar_md>>

\* update_readme(), called from main
UpdateReadme ==
    /\ pc = "update_readme"
    /\ pc' = "create_sidebar"
    /\ IF ~exists(readme_path) \/ io_fault = "readme_read"
       THEN \* README.md missing, or open/read raises and is caught
            /\ ret' = [ret EXCEPT !.update_readme = "false"]
            /\ UNCHANGED <<readme, tree, content>>
       ELSE LET t == generate_readme_tree
                new_content == new_readme_content(readme, t.text)
            IN  /\ content' = readme
                /\ tree' = [made |-> TRUE, lines |-> t.lines,
                            total_dirs |-> t.total_dirs,
                            total_files |-> t.total_files, text |-> t.text]
                /\ IF io_fault = "readme_write"
                   THEN \* open(readme_path, 'w') raises and is caught
                        /\ ret' = [ret EXCEPT !.update_readme = "false"]
                        /\ UNCHANGED readme
                   ELSE /\ readme' = new_content
                        /\ ret' = [ret EXCEPT !.update_readme = "true"]
    /\ UNCHANGED <<root_dir, fs, unreadable, listing, sidebar_md, io_fault, run, side,
                   stats, prev, fs0, filename, info>>

\* create_sidebar(), called from main.  generate_docsify_sidebar() is called
\* before the try block: what it raises leaves create_sidebar and main.
CreateSidebar ==
    /\ pc = "create_sidebar"
    /\ LET sb == generate_docsify_sidebar
       IN  /\ side' = [made |-> TRUE, raised |-> sb.raised, lines |-> sb.lines,
                       year_dirs |-> sb.year_dirs, text |-> sb.text]
           /\ IF sb.raised
              THEN /\ pc' = "crashed"
                   /\ listing' = NoListing
                   /\ UNCHANGED <<ret, sidebar_md, fs>>
              ELSE /\ pc' = "generate_stats"
                   /\ IF io_fault = "sidebar_write"
                      THEN /\ ret' = [ret EXCEPT !.create_sidebar = "false"]
                           /\ UNCHANGED <<sidebar_md, fs, listing>>
                      ELSE /\ ret' = [ret EXCEPT !.create_sidebar = "true"]
                           /\ sidebar_md' = sb.text
                           /\ IF exists(sidebar_path)
                              THEN UNCHANGED <<fs, listing>>
                              ELSE /\ fs' = fs @@ (sidebar_path :> "file")
                                   /\ listing' = [listing EXCEPT
                                                    ![Root] = Append(@, n_sidebar_md)]
    /\ UNCHANGED <<root_dir, unreadable, readme, io_fault, run, tree, content, stats,
                   prev, fs0, filename, info>>

\* generate_stats(), the report and the final message of main
GenerateStats ==
    /\ pc = "generate_stats"
    /\ pc' = "done"
    /\ stats' = [made |-> TRUE, total_files |-> generate_stats.total_files,
                 total_dirs |-> generate_stats.total_dirs]
    /\ listing' = NoListing
    /\ UNCHANGED <<root_dir, fs, unreadable, readme, sidebar_md, io_fault, run,
                   tree, side, ret, content, prev, fs0, filename, info>>

-----------------------------------------------------------------------------
(* The environment: the inputs of a run *)

RECURSIVE Perms(_)
Perms(S) == IF S = {} THEN {<<>>}
            ELSE UNION {{<<x>> \o p : p \in Perms(S \ {x})} : x \in S}

DirsOf(f) == {Root} \cup {p \in DOMAIN f : f[p] = "dir"}
ChildNames(f, dir) ==
    {p[Len(p)] : p \in {q \in DOMAIN f : Len(q) = Len(dir) + 1
                                          /\ SubSeq(q, 1, Len(dir)) = dir}}

\* every order in which the directories of f can yield their entries
RECURSIVE ListingsOver(_, _)
ListingsOver(f, D) ==
    IF D = {} THEN {<<>>}
    ELSE LET d == CHOOSE x \in D : TRUE
         IN  UNION {{(d :> p) @@ l : l \in ListingsOver(f, D \ {d})}
                    : p \in Perms(ChildNames(f, d))}
Listings(f) == ListingsOver(f, DirsOf(f))

\* the script is started again: the file system may yield the entries of a
\* directory in another order
Rerun ==
    /\ pc \in {"done", "crashed"}
    /\ run < MaxRuns
    /\ run' = run + 1
    /\ pc' = "update_readme"
    /\ prev' = [fs0 |-> fs0, readme |-> readme, sidebar_md |-> sidebar_md,
                tree |-> tree, side |-> side, ret |-> ret, pc |-> pc]
    /\ fs0' = fs
    /\ listing' \in Listings(fs)
    /\ tree' = NoTree /\ side' = NoSide /\ ret' = NoRet /\ stats' = NoStats
    /\ content' = <<>>
    /\ UNCHANGED <<root_dir, fs, unreadable, readme, sidebar_md, io_fault, filename, info>>

Next == UpdateReadme \/ CreateSidebar \/ GenerateStats \/ Rerun

IOFaults == {"none", "readme_read", "readme_write", "sidebar_write"}

\* the trees with at most max of the candidate entries cands (a function from
\* relative path to kind) besides the entries of base, each entry with its parent
Closed(S) == \A p \in S : Len(p) = 1 \/ SubSeq(p, 1, Len(p) - 1) \in S
TreesFrom(cands, base, max) ==
    {[p \in S \cup DOMAIN base |-> IF p \in DOMAIN base THEN base[p] ELSE cands[p]] :
        S \in {T \in SUBSET DOMAIN cands : Cardinality(T) <= max /\ Closed(T)}}

\* the states a run can start from: a root, a tree, the unreadable directories,
\* a listing order, and a README content with an I/O fault (Inputs)
InitProgram(Roots, Trees, Inputs) ==
    /\ root_dir \in Roots
    /\ fs \in Trees
    /\ fs0 = fs
    /\ unreadable \in {U \in SUBSET DirsOf(fs) : Cardinality(U) <= MaxUnreadable}
    /\ listing \in Listings(fs)
    /\ \E in \in Inputs :
          /\ readme = (IF readme_path \in DOMAIN fs THEN in.readme ELSE <<>>)
          /\ io_fault = in.io_fault
    /\ sidebar_md = <<>>
    /\ pc = "update_readme"
    /\ run = 1
    /\ tree = NoTree /\ side = NoSide /\ ret = NoRet /\ stats = NoStats
    /\ content = <<>>
    /\ prev = NoPrev
    /\ filename = <<>>
    /\ info = [label |-> <<>>, title |-> <<>>]

-----------------------------------------------------------------------------
(* Input families *)

RECURSIVE SeqsUpTo(_, _)
SeqsUpTo(S, n) ==
    IF n = 0 THEN {<<>>}
    ELSE LET shorter == SeqsUpTo(S, n - 1)
         IN  shorter \cup {Append(q, x) : q \in shorter, x \in S}

\* README contents: the two markers and two pieces of other text, in any order
ReadmePieces == {start_marker, end_marker, "OLD", "x"}
MarkedReadme == <<"x", start_marker, "OLD", end_marker, "x">>
PlainReadme == <<"x">>

\* the document updater: every README content over a root that holds only the
\* README and the sidebar, and a few contents with every I/O fault over three
\* trees
Init ==
    \/ InitProgram({CleanRoot}, {ReadmeOnly @@ SidebarOnly},
                   {[readme |-> c, io_fault |-> "none"] :
                        c \in SeqsUpTo(ReadmePieces, MaxReadmeLen)})
    \/ InitProgram({CleanRoot}, {ReadmeOnly, NoFiles, ZhentiTree},
                   {[readme |-> c, io_fault |-> x] :
                        c \in {MarkedReadme, PlainReadme}, x \in IOFaults})
Spec == Init /\ [][Next]_vars

\* the tree renderer over the trees of TreeCands
InitTree ==
    InitProgram({CleanRoot}, TreesFrom(TreeCands, ReadmeOnly @@ SidebarOnly, MaxTreeEntries),
                {[readme |-> MarkedReadme, io_fault |-> "none"]})
SpecTree == InitTree /\ [][Next]_vars

\* the sidebar builder over the trees of SidebarCands
InitSidebar ==
    InitProgram({CleanRoot, PagesRoot},
                TreesFrom(SidebarCands, SidebarOnly, MaxSidebarEntries),
                {[readme |-> MarkedReadme, io_fault |-> "none"]})
SpecSidebar == InitSidebar /\ [][Next]_vars

-----------------------------------------------------------------------------
(* extract_problem_info applied to every short file name *)

NameChars == {"A", "a", "U9898", "_", "-", ".", "0"}

InitName ==
    /\ filename \in SeqsUpTo(NameChars, MaxNameLen) \ {<<>>}
    /\ info = [label |-> <<>>, title |-> <<>>]
    /\ pc = "extract"
    /\ root_dir = CleanRoot /\ fs = NoFiles /\ fs0 = NoFiles /\ unreadable = {}
    /\ listing = NoListing /\ readme = <<>> /\ sidebar_md = <<>> /\ io_fault = "none"
    /\ run = 1 /\ tree = NoTree /\ side = NoSide /\ ret = NoRet /\ content = <<>>
    /\ stats = NoStats /\ prev = NoPrev

ExtractProblemInfo ==
    /\ pc = "extract"
    /\ pc' = "extracted"
    /\ info' = extract_problem_info(filename)
    /\ UNCHANGED <<root_dir, fs, unreadable, listing, readme, sidebar_md, io_fault, run,
                   tree, side, ret, content, stats, prev, fs0, filename>>

NextName == ExtractProblemInfo
SpecName == InitName /\ [][NextName]_vars

-----------------------------------------------------------------------------
(* Reading the tree text back: the entry lines and what each one shows *)

\* the lines between the two header lines and the three trailer lines
EntryLines == SubSeq(tree.lines, 3, Len(tree.lines) - 3)

ConnectorAt(line) == Min({i \in DOMAIN line : line[i] \in {MID, LAST}})
Connector(line) == line[ConnectorAt(line)]
Depth(line) == ConnectorAt(line) - 1
LineName(line) == SubSeq(line, ConnectorAt(line) + 1, Len(line))

\* the line of the directory a line is listed under, 0 for a child of the root
ParentLine(L, k) ==
    IF Depth(L[k]) = 0 THEN 0
    ELSE LET up == {j \in 1..(k - 1) : Depth(L[j]) = Depth(L[k]) - 1}
         IN  IF up = {} THEN 0 ELSE Max(up)

RECURSIVE LinePath(_, _)
LinePath(L, k) ==
    IF ParentLine(L, k) = 0 THEN <<LineName(L[k])>>
    ELSE Append(LinePath(L, ParentLine(L, k)), LineName(L[k]))

Siblings(L, j, k) == Depth(L[j]) = Depth(L[k]) /\ ParentLine(L, j) = ParentLine(L, k)

\* an entry the renderer is to show: neither it nor a directory above it is
\* ignored, and every directory above it can be listed
Visible(p) ==
    /\ p \in DOMAIN fs
    /\ \A k \in 0..Len(p) : ~should_ignore(Abs(SubSeq(p, 1, k)))
    /\ \A k \in 0..(Len(p) - 1) : SubSeq(p, 1, k) \notin unreadable

-----------------------------------------------------------------------------
(* C6 *)

\* C6: in the tree text, within every rendered directory, the last visible
\* child has the terminal connector and every other visible child the mid-list
\* connector.
C6_LastVisibleChildIsTerminal ==
    tree.made =>
        LET L == EntryLines
        IN  \A k \in DOMAIN L :
               LET last == ~\E j \in (k + 1)..Len(L) : Siblings(L, j, k)
               IN  Connector(L[k]) = (IF last THEN LAST ELSE MID)

-----------------------------------------------------------------------------
(* C10 *)

NameOrd(name) == ords(lower(name))

\* C10: in the tree text the visible children of every directory are listed,
\* directories before files and each group in case-insensitive order of name,
\* and the lines of a directory's subtree follow its own line immediately.
C10_DirsFirstCaseInsensitive ==
    tree.made =>
        LET L == EntryLines
        IN  /\ \A k \in DOMAIN L :
                  /\ Visible(LinePath(L, k))
                  /\ Depth(L[k]) <= (IF k = 1 THEN 0 ELSE Depth(L[k - 1]) + 1)
                  /\ (k > 1 /\ Depth(L[k]) = Depth(L[k - 1]) + 1)
                        => /\ is_dir(LinePath(L, k - 1))
                           /\ ParentLine(L, k) = k - 1
                  /\ \A j \in 1..(k - 1) :
                        Siblings(L, j, k) =>
                           /\ is_file(LinePath(L, j)) => is_file(LinePath(L, k))
                           /\ (is_file(LinePath(L, j)) <=> is_file(LinePath(L, k)))
                                 => ~LexLess(NameOrd(LineName(L[k])),
                                             NameOrd(LineName(L[j])))
            /\ \A p \in DOMAIN fs :
                  Visible(p) => Cardinality({k \in DOMAIN L : LinePath(L, k) = p}) = 1

\* the root yields README.md before the directory b, and b yields Z.txt before
\* a.md; the tree shows b, then b's a.md and Z.txt, then README.md
C10_Witness ==
    /\ tree.made
    /\ pc = "create_sidebar"
    /\ listing[Root] = <<n_README_md, n_sidebar_md, n_b>>
    /\ listing[<<n_b>>] = <<n_Z_txt, n_a_md>>
    /\ LET L == EntryLines
       IN  /\ Len(L) = 4
           /\ LinePath(L, 1) = <<n_b>>
           /\ LinePath(L, 2) = <<n_b, n_a_md>>
           /\ LinePath(L, 3) = <<n_b, n_Z_txt>>
           /\ LinePath(L, 4) = <<n_README_md>>

-----------------------------------------------------------------------------
(* C9 *)

\* the part of a name before its extension: what precedes the last dot, when
\* something other than dots precedes it; the whole name otherwise
StemOf(name) ==
    LET cut == {d \in DOMAIN name :
                   /\ name[d] = "."
                   /\ \A i \in (d + 1)..Len(name) : name[i] # "."
                   /\ \E i \in 1..(d - 1) : name[i] # "."}
    IN  IF cut = {} THEN name ELSE SubSeq(name, 1, (CHOOSE d \in cut : TRUE) - 1)

\* s reads: an upper-case letter, optionally the problem mark, a separator at
\* position sep, and at least one more character
LetterPatternAt(s, sep) ==
    /\ Len(s) > sep
    /\ s[1] \in Range(UpperCase)
    /\ sep = 2 \/ (sep = 3 /\ s[2] = "U9898")
    /\ s[sep] \in {"_", "-"}

LetterPattern(s) == \E sep \in {2, 3} : LetterPatternAt(s, sep)

Spaced(s, seps) == [i \in DOMAIN s |-> IF s[i] \in seps THEN " " ELSE s[i]]

After(s, k) == SubSeq(s, k + 1, Len(s))

\* C9 as stated: a file name that reads as the letter pattern gets its letter
\* as label and the remainder, separators replaced by spaces, as title; any
\* other name whose stem starts with 0_ gets INFO; every remaining name FILE.
C9_PatternOnFileName ==
    pc = "extracted" =>
        LET st == StemOf(filename)
        IN  IF LetterPattern(filename)
            THEN \E sep \in {2, 3} :
                    /\ LetterPatternAt(filename, sep)
                    /\ info = [label |-> <<filename[1]>>,
                               title |-> Spaced(After(st, sep), {"_", "-"})]
            ELSE IF startswith(st, <<"0", "_">>)
            THEN info = [label |-> s_INFO, title |-> Spaced(After(st, 2), {"_"})]
            ELSE info = [label |-> s_FILE, title |-> Spaced(st, {"_"})]

\* C9, amended: the letter pattern is read on the stem of the file name, not on
\* the file name: a name whose stem reads as the letter pattern gets its letter
\* as label and the remainder of the stem, separators replaced by spaces, as
\* title; any other name whose stem starts with 0_ gets INFO; every remaining
\* name FILE.
C9_PatternOnStem ==
    pc = "extracted" =>
        LET st == StemOf(filename)
        IN  IF LetterPattern(st)
            THEN \E sep \in {2, 3} :
                    /\ LetterPatternAt(st, sep)
                    /\ info = [label |-> <<st[1]>>,
                               title |-> Spaced(After(st, sep), {"_", "-"})]
            ELSE IF startswith(st, <<"0", "_">>)
            THEN info = [label |-> s_INFO, title |-> Spaced(After(st, 2), {"_"})]
            ELSE info = [label |-> s_FILE, title |-> Spaced(st, {"_"})]

\* a name with an extension whose stem reads as the letter pattern has been
\* given its letter, and a separator of its remainder has become a space
C9_Witness ==
    /\ pc = "extracted"
    /\ StemOf(filename) # filename
    /\ LetterPattern(StemOf(filename))
    /\ info.label = <<filename[1]>>
    /\ \E i \in DOMAIN info.title : info.title[i] = " "

-----------------------------------------------------------------------------
(* C1, C2, C3, C5: what update_readme writes, and how a run ends *)

Updated == pc # "update_readme" /\ ret.update_readme = "true"
HasMarker(txt, marker) == \E i \in DOMAIN txt : txt[i] = marker

\* C1: when both markers occur in the README, wherever they occur, then after
\* update_readme returned true the text strictly between the start marker and
\* the end marker is newline, the new tree, newline; both markers are there;
\* the text before the start marker and the text after the end marker are
\* what they were.
C1_BlockBetweenMarkersReplaced ==
    (Updated /\ HasMarker(content, start_marker) /\ HasMarker(content, end_marker)) =>
        LET s0 == find(content, start_marker)
            e0 == find(content, end_marker)
            s1 == find(readme, start_marker)
            e1 == find(readme, end_marker)
        IN  /\ s1 # -1 /\ e1 # -1
            /\ s1 < e1
            /\ SubSeq(readme, s1 + 2, e1) = <<NL>> \o tree.text \o <<NL>>
            /\ slice_to(readme, s1) = slice_to(content, s0)
            /\ slice_from(readme, e1 + 1) = slice_from(content, e0 + 1)

\* C2: over an unchanged directory tree, a second run of update_readme leaves
\* README.md as the run before left it, and a second run of create_sidebar
\* leaves _sidebar.md as the run before left it, whatever markers the README
\* had at first.
C2_SecondRunChangesNothing ==
    (run >= 2 /\ prev.fs0 = fs0) =>
        /\ (Updated /\ prev.ret.update_readme = "true") => readme = prev.readme
        /\ (ret.create_sidebar = "true" /\ prev.ret.create_sidebar = "true")
              => sidebar_md = prev.sidebar_md

\* C3: when the README exists and can be read and written but a marker is
\* missing, update_readme returns true and the new content is the old content
\* followed by a block: the start marker, the tree, the end marker, in that
\* order, set apart by newlines only.
C3_MissingMarkerAppendsBlock ==
    (/\ pc # "update_readme"
     /\ exists(readme_path)
     /\ io_fault \notin {"readme_read", "readme_write"}
     /\ ~(HasMarker(content, start_marker) /\ HasMarker(content, end_marker))) =>
        /\ ret.update_readme = "true"
        /\ slice_to(readme, Len(content)) = content
        /\ LET block == slice_from(readme, Len(content))
           IN  \E i, j \in DOMAIN block :
                  /\ block[i] = start_marker
                  /\ block[j] = end_marker
                  /\ i + 2 <= j - 2
                  /\ SubSeq(block, i + 2, j - 2) = tree.text
                  /\ \A k \in DOMAIN block :
                        (k < i \/ k = i + 1 \/ k = j - 1 \/ k > j) => block[k] = NL

\* a README that had the start marker only has been given a whole block after
\* its old content
C3_Witness ==
    /\ Updated
    /\ tree.made
    /\ HasMarker(content, start_marker)
    /\ ~HasMarker(content, end_marker)
    /\ Len(readme) > Len(content)
    /\ slice_to(readme, Len(content)) = content
    /\ HasMarker(slice_from(readme, Len(content)), start_marker)
    /\ HasMarker(slice_from(readme, Len(content)), end_marker)

\* C5: no failure ends the run early: update_readme and create_sidebar return
\* false where their step fails, and main goes on to the statistics and to its
\* last message.
C5_NoFailureEndsTheRun ==
    /\ pc # "crashed"
    /\ (pc # "update_readme" /\ (~exists(readme_path)
                                    \/ io_fault \in {"readme_read", "readme_write"}))
          => ret.update_readme = "false"
    /\ (pc \in {"generate_stats", "done"} /\ io_fault = "sidebar_write")
          => ret.create_sidebar = "false"
    /\ pc = "done" => stats.made

-----------------------------------------------------------------------------
(* Reading the sidebar back *)

EndsWith(line, tail) ==
    Len(line) >= Len(tail) /\ SubSeq(line, Len(line) - Len(tail) + 1, Len(line)) = tail

\* the line links to the file name of the section dir
LinksTo(line, dir, name) == EndsWith(line, <<"](", "#">> \o dir \o <<"/">> \o name \o <<")">>)

\* a line below a heading: an entry or a fallback line
Indented(line) ==
    Len(line) >= 1 /\ (line[1] \in {"  * [", "  * **"}
                        \/ line = YEAR_FALLBACK \/ line = ZHONGCE_FALLBACK)

\* the lines that follow the heading at k, up to the next line that is not below it
BlockAfter(L, k) ==
    LET stop == {j \in (k + 1)..Len(L) : ~Indented(L[j])}
    IN  SubSeq(L, k + 1, IF stop = {} THEN Len(L) ELSE Min(stop) - 1)

LinesAt(L, line) == {k \in DOMAIN L : L[k] = line}

\* the files of a section that are to be linked
LinkedFiles(dir) ==
    {p \in DOMAIN fs : /\ Len(p) = Len(dir) + 1
                       /\ SubSeq(p, 1, Len(dir)) = dir
                       /\ is_file(p)
                       /\ ~should_ignore(Abs(p))}

\* the block links each file of dir once and holds nothing else
LinksExactly(block, dir, label) ==
    /\ Len(block) = Cardinality(LinkedFiles(dir))
    /\ \A p \in LinkedFiles(dir) :
          \E i \in DOMAIN block : LinksTo(block[i], label, p[Len(p)])

\* the year directories of the tree: those of the root, or without any, those
\* of its fallback folder
YearDirsUnder(dir) ==
    {p \in DOMAIN fs : /\ Len(p) = Len(dir) + 1
                       /\ SubSeq(p, 1, Len(dir)) = dir
                       /\ is_dir(p)
                       /\ ~should_ignore(Abs(p))}
YearDirs ==
    LET direct == {p \in YearDirsUnder(Root) : is_year_name(p[1])}
    IN  IF direct # {} THEN direct
        ELSE IF exists(<<n_zhenti>>) /\ is_dir(<<n_zhenti>>)
        THEN {p \in YearDirsUnder(<<n_zhenti>>) : has_year_prefix(p[2])}
        ELSE {}

SidebarMade == side.made /\ ~side.raised

-----------------------------------------------------------------------------
(* C8 *)

\* C8: in the sidebar a year directory that cannot be listed has its heading,
\* then one fallback line and no entry; every other year directory has its
\* heading and its entries; the headings come in descending order of year; and
\* the section of the comprehensive assessment follows them.
C8_UnreadableYearFallsBack ==
    SidebarMade =>
        LET L == side.lines
            At(y) == LinesAt(L, year_heading(path_name(y)))
            Line(y) == CHOOSE k \in At(y) : TRUE
        IN  /\ \A y \in YearDirs :
                  /\ Cardinality(At(y)) = 1
                  /\ IF y \in unreadable
                     THEN BlockAfter(L, Line(y)) = <<YEAR_FALLBACK>>
                     ELSE LinksExactly(BlockAfter(L, Line(y)), y, path_name(y))
            /\ \A y, z \in YearDirs :
                  LexLess(ords(path_name(y)), ords(path_name(z))) => Line(z) < Line(y)
            /\ is_dir(<<n_zhongce>>) =>
                  /\ Cardinality(LinesAt(L, ZHONGCE_HEADING)) = 1
                  /\ LET k == CHOOSE k \in LinesAt(L, ZHONGCE_HEADING) : TRUE
                     IN  /\ \A y \in YearDirs : Line(y) + Len(BlockAfter(L, Line(y))) < k
                         /\ IF <<n_zhongce>> \in unreadable
                            THEN BlockAfter(L, k) = <<ZHONGCE_FALLBACK>>
                            ELSE LinksExactly(BlockAfter(L, k), <<n_zhongce>>, n_zhongce)

\* 2023 cannot be listed, 2024 holds one problem and the comprehensive
\* assessment is there: the sidebar has the heading of 2024 and its entry, the
\* heading of 2023 and the fallback line, then the assessment heading
C8_Witness ==
    /\ SidebarMade
    /\ unreadable = {<<n_2023>>}
    /\ \E k \in DOMAIN side.lines :
          /\ k + 5 <= Len(side.lines)
          /\ side.lines[k] = year_heading(n_2024)
          /\ LinksTo(side.lines[k + 1], n_2024, n_B_y_z_pdf)
          /\ side.lines[k + 2] = year_heading(n_2023)
          /\ side.lines[k + 3] = YEAR_FALLBACK
          /\ side.lines[k + 4] = <<>>
          /\ side.lines[k + 5] = ZHONGCE_HEADING

-----------------------------------------------------------------------------
(* C4 *)

\* the entry is ignored, or lies below an ignored directory
Ignored(p) == \E k \in 1..Len(p) : should_ignore(Abs(SubSeq(p, 1, k)))

\* C4: no ignored entry, and nothing below an ignored directory, is a line of
\* the tree text or a heading or a link line of the sidebar text.
C4_IgnoredEntriesNeverShown ==
    /\ tree.made =>
          \A k \in DOMAIN EntryLines : ~Ignored(LinePath(EntryLines, k))
    /\ SidebarMade =>
          \A p \in DOMAIN fs :
             Ignored(p) =>
                \A k \in DOMAIN side.lines :
                   /\ Len(p) = 1 =>
                         /\ side.lines[k] # year_heading(p[1])
                         /\ side.lines[k] # <<"* **">> \o p[1] \o <<"**">>
                   /\ Len(p) = 2 => ~LinksTo(side.lines[k], p[1], p[2])

-----------------------------------------------------------------------------
(* C7 *)

\* C7: two runs over the same directory tree give the same tree text and the
\* same sidebar text, in whatever order the directories yield their entries.
C7_OutputsDependOnTreeOnly ==
    (run >= 2 /\ prev.fs0 = fs0) =>
        /\ (tree.made /\ prev.tree.made) => tree.text = prev.tree.text
        /\ (SidebarMade /\ prev.side.made /\ ~prev.side.raised)
              => side.text = prev.side.text

====
